---- MODULE Spec2Model ----
(***************************************************************************)
(* A model of cb2pdf.py: the Converter class that converts .cbz/.cbr       *)
(* archives of a directory to PDF in sequential batches, each batch being  *)
(* run on a ThreadPoolExecutor, moving each processed archive to original/ *)
(* and appending failures to error_log.txt.                                *)
(*                                                                         *)
(* File names are sequences of one-character strings, so that lower(),     *)
(* endswith() and rsplit('.', 1) are computed rather than assumed.         *)
(***************************************************************************)
EXTENDS Integers, Sequences, FiniteSets, TLC

\* ------------------------------------------------------------- bounds
\* Most archives a run starts with.
MaxFiles == 3
\* Largest batch_size argument tried (batch_size >= 1: range() rejects 0).
MaxBatch == 2
\* Largest max_workers argument tried (ThreadPoolExecutor rejects <= 0).
MaxWorkers == 2
\* Most qualifying image entries in one archive.
MaxImages == 2
\* Most runs of the program on the same directory.
MaxRuns == 2
\* Most archives in a directory the program is run on more than once.
MaxRerunFiles == 2

\* ------------------------------------------------------------- file names
\* The archives a run may find: two of them share a base name, one has an
\* upper-case extension.
Archives ==
    { <<"a", ".", "c", "b", "z">>,
      <<"a", ".", "c", "b", "r">>,
      <<"b", ".", "C", "B", "Z">> }

\* The directory created by Converter.__init__, which os.listdir returns too.
OriginalDir == <<"o", "r", "i", "g", "i", "n", "a", "l">>

DotCbz == <<".", "c", "b", "z">>
DotCbr == <<".", "c", "b", "r">>
DotPdf == <<".", "p", "d", "f">>

\* str.lower() on one character (the upper-case letters that occur in Archives).
LowerChar(c) ==
    CASE c = "C" -> "c"
      [] c = "B" -> "b"
      [] c = "Z" -> "z"
      [] c = "R" -> "r"
      [] OTHER -> c

\* str.lower()
Lower(s) == [n \in 1..Len(s) |-> LowerChar(s[n])]

\* str.endswith(suffix)
EndsWith(s, suffix) ==
    /\ Len(s) >= Len(suffix)
    /\ SubSeq(s, Len(s) - Len(suffix) + 1, Len(s)) = suffix

\* filename.lower().endswith('.cbz') and filename.lower().endswith('.cbr')
IsCbz(filename) == EndsWith(Lower(filename), DotCbz)
IsCbr(filename) == EndsWith(Lower(filename), DotCbr)

\* f.lower().endswith(('.cbz', '.cbr')): the filter of the directory listing
Matches(filename) == IsCbz(filename) \/ IsCbr(filename)

\* filename.rsplit('.', 1)[0]: the part before the last dot, or the whole
\* name when it has no dot.
RSplitHead(s) ==
    LET dots == {n \in 1..Len(s) : s[n] = "."}
    IN  IF dots = {} THEN s
        ELSE LET last == CHOOSE n \in dots : \A m \in dots : m <= n
             IN  SubSeq(s, 1, last - 1)

\* pdf_path = filename.rsplit('.', 1)[0] + '.pdf'
PdfPath(filename) == RSplitHead(filename) \o DotPdf

\* ------------------------------------------------------------- state
VARIABLES
    dir,          \* names of the entries of the source directory
    original,     \* names of the files inside original/
    pdfs,         \* PDF files that exist in the source directory
    log,          \* error_log.txt: the sequence of lines appended
    batch_size,   \* argument of process_files_in_batches
    max_workers,  \* argument of process_files_in_batches
    pc,           \* position of the orchestrating thread
    file_list,    \* the filtered directory listing
    i,            \* the loop variable of "for i in range(0, total, batch_size)"
    batch_files,  \* file_list[i:i+batch_size] of the current iteration
    k,            \* position inside the submit loop / the result loop
    queue,        \* executor work queue: submitted jobs no worker has taken
    jobs,         \* one record per entry of file_list: its process_file call
    pbar,         \* the tqdm counter of the current batch
    pauses,       \* number of time.sleep calls made
    announced,    \* the <<index, total>> pairs printed, in order
    batches,      \* the batch_files of every iteration, in order
    run,          \* which run of the program on the directory this is
    found         \* original/, the PDFs and the log as the run found them

vars == << dir, original, pdfs, log, batch_size, max_workers, pc, file_list, i,
           batch_files, k, queue, jobs, pbar, pauses, announced, batches, run,
           found >>

fsVars == << dir, original, pdfs, log >>
orchVars == << pc, file_list, i, batch_files, k, pbar, pauses, announced, batches >>
argVars == << batch_size, max_workers >>
runVars == << run, found >>

\* A process_file call that has not been submitted yet.
\*   pc      none | queued | open | convert | log | move | done | hung
\*   err     the failure inside process_cbz / process_cbr, if any
\*   opened  images decoded by images_to_pdf; closed: images closed by it
\*   saved   images[0].save wrote the PDF
\*   moved   shutil.move relocated the file; moveErr: shutil.move raised
\*   exc     the exception that left process_file (the future's exception)
\*   submits how many times executor.submit was called for it
\*   pending what a log_error call in progress has still to write, and
\*           after: where the call continues once log_error has returned
\*   logged  how many log_error calls it has completed
NoJob ==
    [ pc |-> "none", err |-> "none", opened |-> 0, closed |-> 0,
      saved |-> FALSE, moved |-> FALSE, moveErr |-> FALSE, exc |-> "none",
      submits |-> 0, pending |-> << >>, after |-> "none", logged |-> 0 ]

total_files == Len(file_list)

Min(a, b) == IF a <= b THEN a ELSE b

\* All orderings of a finite set, as sequences: os.listdir returns the
\* entries in arbitrary order.
Orderings(S) ==
    {s \in [1..Cardinality(S) -> S] : \A a, b \in DOMAIN s : a # b => s[a] # s[b]}

\* Converter.__init__ has created original/; nothing has been converted.
Init ==
    /\ \E d \in SUBSET Archives :
          /\ Cardinality(d) <= MaxFiles
          /\ dir = d \cup {OriginalDir}
    /\ original = {}
    /\ pdfs = {}
    /\ log = << >>
    /\ batch_size \in 1..MaxBatch
    /\ max_workers \in 1..MaxWorkers
    /\ pc = "scan"
    /\ file_list = << >>
    /\ i = 0
    /\ batch_files = << >>
    /\ k = 1
    /\ queue = << >>
    /\ jobs = << >>
    /\ pbar = 0
    /\ pauses = 0
    /\ announced = << >>
    /\ batches = << >>
    /\ run = 1
    /\ found = [original |-> {}, pdfs |-> {}, log |-> << >>, relocated |-> FALSE]

\* ------------------------------------------------------------- orchestrator
\* file_list = [f for f in os.listdir(self.path) if f.lower().endswith(...)]
ListDir ==
    /\ pc = "scan"
    /\ file_list' \in Orderings({f \in dir : Matches(f)})
    /\ jobs' = [n \in 1..Len(file_list') |-> NoJob]
    /\ i' = 0
    /\ pc' = "loop"
    /\ UNCHANGED << fsVars, argVars, runVars, batch_files, k, queue, pbar,
                    pauses, announced, batches >>

\* A slice that forgets its upper end: file_list[i:]
BatchFiles_NoEnd(start) == SubSeq(file_list, start + 1, total_files)

\* batch_files = file_list[i:i+batch_size]
BatchFiles(start) ==
    SubSeq(file_list, start + 1, Min(start + batch_size, total_files))

\* i//batch_size + 1
BatchIndex(start) == (start \div batch_size) + 1

\* A total rounded down: total_files//batch_size
TotalBatches_Floor == total_files \div batch_size

\* (total_files + batch_size - 1)//batch_size
TotalBatches == (total_files + batch_size - 1) \div batch_size

\* An off-by-one pause test: i + batch_size <= total_files
NotLastBatch_Inclusive(start) == start + batch_size <= total_files

\* if i + batch_size < total_files
NotLastBatch(start) == start + batch_size < total_files

\* The head of "for i in range(0, total_files, batch_size)": one more
\* iteration (slice, print, open the progress bar and the pool) or the end.
LoopHead ==
    /\ pc = "loop"
    /\ IF i < total_files
       THEN /\ batch_files' = BatchFiles(i)
            /\ announced' = Append(announced, << BatchIndex(i), TotalBatches >>)
            /\ batches' = Append(batches, BatchFiles(i))
            /\ pbar' = 0
            /\ k' = 1
            /\ pc' = "submit"
       ELSE /\ pc' = "done"
            /\ UNCHANGED << batch_files, announced, batches, pbar, k >>
    /\ UNCHANGED << fsVars, argVars, runVars, file_list, i, queue, jobs, pauses >>

\* The process_file call of the n-th file of the current batch (futures[n-1]):
\* jobs are kept per entry of file_list, whose names are distinct.
Future(n) == CHOOSE j \in 1..total_files : file_list[j] = batch_files[n]

\* One executor.submit(self.process_file, filename) of the list comprehension.
Submit ==
    /\ pc = "submit"
    /\ LET j == Future(k)
       IN  /\ jobs' = [jobs EXCEPT ![j].pc = "queued",
                                   ![j].submits = jobs[j].submits + 1]
           /\ queue' = Append(queue, j)
    /\ IF k < Len(batch_files)
       THEN k' = k + 1 /\ pc' = "submit"
       ELSE k' = 1 /\ pc' = "wait"
    /\ UNCHANGED << fsVars, argVars, runVars, file_list, i, batch_files, pbar, pauses,
                    announced, batches >>

\* A future.result() that does not wait for the call.
FutureDone_NoWait(j) == TRUE

\* future.result() returns (or raises) once the call has finished.
FutureDone(j) == jobs[j].pc = "done"

\* future.result(); pbar.update(1) for the k-th future.  An exception
\* stored in the future is re-raised and leaves process_files_in_batches.
Result ==
    /\ pc = "wait"
    /\ FutureDone(Future(k))
    /\ IF jobs[Future(k)].exc # "none"
       THEN /\ pc' = "aborted"
            /\ UNCHANGED << pbar, k >>
       ELSE /\ pbar' = pbar + 1
            /\ IF k < Len(batch_files)
               THEN k' = k + 1 /\ pc' = "wait"
               ELSE k' = 1 /\ pc' = "exit"
    /\ UNCHANGED << fsVars, argVars, runVars, file_list, i, batch_files, queue, jobs,
                    pauses, announced, batches >>

\* Jobs a worker thread is executing.
Running ==
    {j \in DOMAIN jobs : jobs[j].pc \in {"open", "convert", "log", "move", "hung"}}

\* ThreadPoolExecutor.__exit__ is shutdown(wait=True): every queued call has
\* been taken and every worker thread has finished.
PoolIdle == queue = << >> /\ Running = {}

\* Leaving the two with blocks, gc.collect(), then the test for the pause.
ExitPool ==
    /\ pc = "exit"
    /\ PoolIdle
    /\ IF NotLastBatch(i)
       THEN pc' = "sleep" /\ i' = i
       ELSE pc' = "loop" /\ i' = i + batch_size
    /\ UNCHANGED << fsVars, argVars, runVars, file_list, batch_files, k, queue, jobs,
                    pbar, pauses, announced, batches >>

\* time.sleep(sleep_time), then the next value of range().
Sleep ==
    /\ pc = "sleep"
    /\ pauses' = pauses + 1
    /\ i' = i + batch_size
    /\ pc' = "loop"
    /\ UNCHANGED << fsVars, argVars, runVars, file_list, batch_files, k, queue, jobs,
                    pbar, announced, batches >>

\* ------------------------------------------------------------- process_file
\* The value of a handler that does not catch the exception.
Uncaught == "uncaught"

\* What opening the archive may raise: rarfile.NotRarFile (a .cbr only), or
\* any other exception of the opener (a bad zip, an unreadable file).
OpenErrors(filename) ==
    IF IsCbr(filename) THEN {"NotRarFile", "BadArchive"} ELSE {"BadArchive"}

\* A process_cbz whose handler catches the failure to open only.
CbzHandler_OpenOnly(e) ==
    IF e = "BadArchive" THEN "Error processing CBZ" ELSE Uncaught

\* process_cbz: "except Exception as e" around the whole with block.
CbzHandler(e) == "Error processing CBZ"

\* process_cbr: "except rarfile.NotRarFile", then "except Exception as e".
CbrHandler(e) ==
    IF e = "NotRarFile" THEN "Not a valid RAR file" ELSE "Error processing CBR"

\* A process_file without its try/except.
OuterHandler_None(e) == Uncaught

\* process_file: "except Exception as e" around the conversion and the move.
OuterHandler(e) == "Failed to process"

\* The line of one log_error call: f"{message}\n"; file stands for the
\* file_path or filename the message names.  part tells a whole line from a
\* piece of one ("msg": the message without its newline, "nl": the newline).
LogLine(template, filename) ==
    [tmpl |-> template, file |-> filename, part |-> "line"]

\* A log_error that writes the message and the newline in two writes.
LogWrites_Split(line) ==
    << [line EXCEPT !.part = "msg"], [line EXCEPT !.part = "nl"] >>

\* log.write(f"{message}\n"): the writes log_error makes for a line, each
\* one append to the file opened in mode 'a'.
LogWrites(line) == << line >>

\* self.log_error(...) is called in job record r, which continues at next
\* once the call has returned.
CallLogError(r, line, next) ==
    [r EXCEPT !.pc = "log", !.pending = LogWrites(line), !.after = next]

\* Exception e reaches the try block of process_file in job j (record r):
\* the handler calls log_error and process_file returns, or the exception
\* leaves process_file and becomes the exception of the future.
RaiseInFile(j, r, e) ==
    LET h == OuterHandler(e)
    IN  IF h # Uncaught
        THEN CallLogError(r, LogLine(h, file_list[j]), "done")
        ELSE [r EXCEPT !.pc = "done", !.exc = e]

\* Exception e is raised inside the try block of process_cbz / process_cbr:
\* the per-format handler calls log_error and the call returns normally, so
\* that process_file goes on to shutil.move; an exception it does not catch
\* reaches the try block of process_file.
RaiseInFormat(j, r, e) ==
    LET h == IF IsCbz(file_list[j]) THEN CbzHandler(e) ELSE CbrHandler(e)
    IN  IF h # Uncaught
        THEN CallLogError(r, LogLine(h, file_list[j]), "move")
        ELSE RaiseInFile(j, r, e)

\* with open(self.log_file, 'a') as log: log.write(...): the next write
\* of the log_error call of job j is appended to the file; after the last
\* one the call returns.
LogError(j) ==
    /\ jobs[j].pc = "log"
    /\ log' = Append(log, Head(jobs[j].pending))
    /\ jobs' = IF Len(jobs[j].pending) > 1
               THEN [jobs EXCEPT ![j].pending = Tail(jobs[j].pending)]
               ELSE [jobs EXCEPT ![j].pending = << >>,
                                 ![j].pc = jobs[j].after,
                                 ![j].after = "none",
                                 ![j].logged = jobs[j].logged + 1]
    /\ UNCHANGED << dir, original, pdfs, argVars, runVars, orchVars, queue >>

\* A pool that starts a thread for every call.
WorkerAvailable_Unbounded == TRUE

\* A worker thread is free to take a call: the pool has max_workers threads.
WorkerAvailable == Cardinality(Running) < max_workers

\* A worker takes the oldest queued call and enters process_file.
StartJob(j) ==
    /\ queue # << >>
    /\ j = Head(queue)
    /\ WorkerAvailable
    /\ queue' = Tail(queue)
    /\ jobs' = [jobs EXCEPT ![j].pc = "open"]
    /\ UNCHANGED << fsVars, argVars, runVars, orchVars >>

\* zipfile.ZipFile(file_path) / rarfile.RarFile(file_path): the archive
\* opens, or the opener raises inside the per-format try block.
OpenArchive(j) ==
    /\ jobs[j].pc = "open"
    /\ \/ jobs' = [jobs EXCEPT ![j].pc = "convert"]
       \/ \E e \in OpenErrors(file_list[j]) :
             jobs' = [jobs EXCEPT
                        ![j] = RaiseInFormat(j, [jobs[j] EXCEPT !.err = e], e)]
    /\ UNCHANGED << fsVars, argVars, runVars, orchVars, queue >>

\* A conversion that writes a PDF for an empty image list as well.
SavesPdf_Always(n) == TRUE

\* if images: images[0].save(pdf_path, ...)
SavesPdf(n) == n > 0

\* namelist() filtered and sorted, then images_to_pdf on n image entries:
\* enumeration may raise; decoding entry d may raise after d - 1 images
\* were decoded; images[0].save may raise; otherwise the PDF is written
\* (when n > 0) and every image is closed.  The cleanup loop is the last
\* statement of images_to_pdf: an exception before it skips it.
ImagesToPdf(j) ==
    /\ jobs[j].pc = "convert"
    /\ \/ \E n \in 0..MaxImages :
             /\ jobs' = [jobs EXCEPT ![j].pc = "move", ![j].opened = n,
                                     ![j].closed = n, ![j].saved = SavesPdf(n)]
             /\ pdfs' = IF SavesPdf(n)
                        THEN pdfs \cup {PdfPath(file_list[j])}
                        ELSE pdfs
       \/ \E e \in {"EnumError", "DecodeError", "EncodeError"} :
          \E n \in 0..MaxImages :
             /\ e = "EnumError" => n = 0
             /\ e = "DecodeError" => n < MaxImages
             /\ e = "EncodeError" => n > 0
             /\ LET r == [jobs[j] EXCEPT !.err = e, !.opened = n]
                IN  jobs' = [jobs EXCEPT ![j] = RaiseInFormat(j, r, e)]
             /\ UNCHANGED pdfs
    /\ UNCHANGED << dir, original, log, argVars, runVars, orchVars, queue >>

\* A process_file that copies the file into original/ and leaves the source.
MoveFile_Copy(j) ==
    /\ jobs[j].pc = "move"
    /\ original' = original \cup {file_list[j]}
    /\ jobs' = [jobs EXCEPT ![j].pc = "done", ![j].moved = TRUE]
    /\ UNCHANGED << dir, pdfs, log, argVars, runVars, orchVars, queue >>

\* shutil.move(file_path, os.path.join(self.original_dir, filename)): the
\* file is renamed into original/, or the move raises inside the try block
\* of process_file and the file stays where it is.
MoveFile(j) ==
    /\ jobs[j].pc = "move"
    /\ \/ /\ dir' = dir \ {file_list[j]}
          /\ original' = original \cup {file_list[j]}
          /\ jobs' = [jobs EXCEPT ![j].pc = "done", ![j].moved = TRUE]
       \/ /\ jobs' = [jobs EXCEPT
                        ![j] = RaiseInFile(j, [jobs[j] EXCEPT !.moveErr = TRUE],
                                           "MoveError")]
          /\ UNCHANGED << dir, original >>
    /\ UNCHANGED << pdfs, log, argVars, runVars, orchVars, queue >>

Next ==
    \/ ListDir
    \/ LoopHead
    \/ Submit
    \/ Result
    \/ ExitPool
    \/ Sleep
    \/ \E j \in DOMAIN jobs : StartJob(j)
    \/ \E j \in DOMAIN jobs : OpenArchive(j)
    \/ \E j \in DOMAIN jobs : ImagesToPdf(j)
    \/ \E j \in DOMAIN jobs : LogError(j)
    \/ \E j \in DOMAIN jobs : MoveFile(j)

Spec == Init /\ [][Next]_vars

\* The interpreter schedules every runnable thread and time.sleep returns:
\* a step that stays possible is eventually taken.
FairSpec == Spec /\ WF_vars(Next)

\* ------------------------------------------------------------- re-runs
\* The program is started again on the same directory once a run has ended:
\* a new Converter (original/ exists already) and a new call of
\* process_files_in_batches, with the files, PDFs and log the run left.
Rerun ==
    /\ pc = "done"
    /\ run < MaxRuns
    /\ run' = run + 1
    /\ found' = [original |-> original, pdfs |-> pdfs, log |-> log,
                 relocated |-> \A j \in DOMAIN jobs : jobs[j].moved]
    /\ pc' = "scan"
    /\ file_list' = << >>
    /\ i' = 0
    /\ batch_files' = << >>
    /\ k' = 1
    /\ jobs' = << >>
    /\ pbar' = 0
    /\ pauses' = 0
    /\ announced' = << >>
    /\ batches' = << >>
    /\ UNCHANGED << fsVars, argVars, queue >>

RerunNext == Next \/ Rerun

\* The directory a sequence of runs starts on holds at most MaxRerunFiles
\* archives.
RerunInit == Init /\ Cardinality(dir \ {OriginalDir}) <= MaxRerunFiles

RerunSpec == RerunInit /\ [][RerunNext]_vars

\* ------------------------------------------------------------- a hanging job
\* archive.open / Image.open never returns in one job: nothing times it out
\* or cancels it, so the call stays in its worker thread for ever.
Hang(j) ==
    /\ jobs[j].pc = "convert"
    /\ \A h \in DOMAIN jobs : jobs[h].pc # "hung"
    /\ jobs' = [jobs EXCEPT ![j].pc = "hung"]
    /\ UNCHANGED << fsVars, argVars, runVars, orchVars, queue >>

HangNext == Next \/ \E j \in DOMAIN jobs : Hang(j)

\* Every thread that can take a step eventually takes one; a hang is never
\* forced.
HangSpec == Init /\ [][HangNext]_vars /\ WF_vars(Next)

\* ------------------------------------------------------------- properties
\* The lines and pieces of lines this run has appended to error_log.txt.
RunLog == SubSeq(log, Len(found.log) + 1, Len(log))

\* A line this run appended to error_log.txt names the file, with one of
\* the templates.
Logged(filename, templates) ==
    \E n \in DOMAIN RunLog :
        RunLog[n].file = filename /\ RunLog[n].tmpl \in templates

AllTemplates ==
    { "Error processing CBZ", "Error processing CBR", "Not a valid RAR file",
      "Failed to process" }

\* The templates of the handlers of process_cbz and process_cbr.
FormatTemplates ==
    { "Error processing CBZ", "Error processing CBR", "Not a valid RAR file" }

\* The process_file call of entry j has returned.
Terminal(j) == jobs[j].pc = "done"

\* Something failed inside the process_file call of entry j.
Failed(j) == jobs[j].err # "none" \/ jobs[j].moveErr

\* Every submitted call has returned and the orchestrator has left its loop.
RunComplete == pc = "done" /\ \A j \in DOMAIN jobs : Terminal(j)

\* C1: after process_files_in_batches returns, every discovered file is in
\* exactly one of two situations: its PDF was produced and the file is in
\* original/, or an error-log line names it and the file is still in the
\* source directory.
C1_ExactlyOneOutcome ==
    pc = "done" =>
        \A j \in DOMAIN jobs :
            LET f == file_list[j]
                converted == /\ jobs[j].saved
                             /\ PdfPath(f) \in pdfs
                             /\ f \in original
                             /\ f \notin dir
                failed == /\ Logged(f, AllTemplates)
                          /\ f \in dir
                          /\ f \notin original
            IN  (converted \/ failed) /\ ~(converted /\ failed)

\* C2: when opening the archive fails, a format-specific line is logged (for
\* a .cbr that is no rar stream, the "Not a valid RAR file" line), no PDF is
\* produced and the file is not relocated: when the job finishes it is still
\* in the source directory and not in original/.
C2_OpenFailureLeavesFile ==
    \A j \in DOMAIN jobs :
        (Terminal(j) /\ jobs[j].err \in {"NotRarFile", "BadArchive"}) =>
            LET f == file_list[j]
            IN  /\ Logged(f, FormatTemplates)
                /\ jobs[j].err = "NotRarFile" => Logged(f, {"Not a valid RAR file"})
                /\ ~jobs[j].saved
                /\ f \in dir
                /\ f \notin original

\* The batch the claims assign to entry j of the listing: consecutive groups
\* of batch_size entries, numbered from 1.
BatchOf(j) == ((j - 1) \div batch_size) + 1

\* ceil(n / d), as the least c with c * d >= n.
Ceil(n, d) == CHOOSE c \in 0..n : c * d >= n /\ (c - 1) * d < n

Max(a, b) == IF a >= b THEN a ELSE b

\* The call of entry j has been submitted / has been taken by a worker.
Submitted(j) == jobs[j].pc # "none"
Started(j) == jobs[j].pc \notin {"none", "queued"}

\* C3: batches are strictly sequential: no job of a later batch is submitted
\* (let alone running) before every job of every earlier batch is terminal,
\* so jobs of two batches never run at the same time.
C3_BatchesSequential ==
    \A a, b \in DOMAIN jobs :
        (BatchOf(a) < BatchOf(b) /\ Submitted(b)) => Terminal(a)

\* A job of the second batch is running, all of the first batch being done.
C3_Witness ==
    \E a, b \in DOMAIN jobs :
        /\ BatchOf(a) = 1
        /\ BatchOf(b) = 2
        /\ Terminal(a)
        /\ b \in Running

\* C4: failure isolation: once a job has failed, the run still ends with
\* every discovered file's job in a terminal state: no job is cancelled or
\* left unstarted, and the batches that follow are processed.
C4_FailureIsolation == (\E j \in DOMAIN jobs : Failed(j)) ~> RunComplete

\* A job of the first batch failed; its sibling and a job of a later batch
\* ended as well, one of them without any failure.
C4_Witness ==
    /\ RunComplete
    /\ \E a, b, c \in DOMAIN jobs :
          /\ a # b
          /\ BatchOf(a) = 1 /\ BatchOf(b) = 1 /\ BatchOf(c) = 2
          /\ Failed(a)
          /\ ~Failed(b)
          /\ jobs[c].moved

\* C5: the listing is cut into ceil(N / batch_size) consecutive batches in
\* listing order, all of batch_size files but the last, which has the rest;
\* every file is submitted exactly once; batch n is announced as n out of
\* ceil(N / batch_size).
C5_Partition ==
    LET N == total_files
        B == Ceil(N, batch_size)
    IN  /\ Len(batches) <= B
        /\ Len(announced) = Len(batches)
        /\ \A n \in DOMAIN batches :
              /\ announced[n] = << n, B >>
              /\ Len(batches[n]) =
                    IF n < B THEN batch_size ELSE N - batch_size * (B - 1)
              /\ \A m \in DOMAIN batches[n] :
                    batches[n][m] = file_list[(n - 1) * batch_size + m]
        /\ \A j \in DOMAIN jobs : jobs[j].submits <= 1
        /\ pc = "done" =>
              /\ Len(batches) = B
              /\ \A j \in DOMAIN jobs : jobs[j].submits = 1

\* Three files in batches of two: sizes 2 and 1, announced 1/2 and 2/2.
C5_Witness ==
    /\ pc = "done"
    /\ total_files = 3
    /\ batch_size = 2
    /\ Len(batches) = 2
    /\ Len(batches[1]) = 2
    /\ Len(batches[2]) = 1
    /\ announced = << <<1, 2>>, <<2, 2>> >>

\* C6: at most max_workers process_file calls execute at any time, also in
\* a batch larger than max_workers; queued calls are exactly the ones that
\* wait, and calls start in the order they were submitted.
C6_BoundedConcurrency ==
    /\ Cardinality(Running) <= max_workers
    /\ \A a, b \in DOMAIN jobs : (a < b /\ Started(b)) => Started(a)
    /\ \A j \in DOMAIN jobs :
          jobs[j].pc = "queued" <=> (\E n \in DOMAIN queue : queue[n] = j)

\* A batch larger than the pool: every worker busy and a call waiting.
C6_Witness ==
    /\ Len(batch_files) > max_workers
    /\ Cardinality(Running) = max_workers
    /\ queue # << >>

\* C7: one pause between consecutive batches and none after the last: the
\* pause comes when every job of the batches so far is terminal and no job
\* of a later batch is submitted, and a finished run of B batches has made
\* max(B - 1, 0) pauses.
C7_Pauses ==
    LET B == Ceil(total_files, batch_size)
    IN  /\ pc \in {"submit", "wait", "exit", "sleep"} => pauses = Len(batches) - 1
        /\ pc = "sleep" =>
              /\ Len(batches) < B
              /\ \A j \in DOMAIN jobs :
                    IF BatchOf(j) <= Len(batches) THEN Terminal(j) ELSE ~Submitted(j)
        /\ pc = "done" =>
              /\ pauses = Max(B - 1, 0)
              /\ \A j \in DOMAIN jobs : Terminal(j)

\* A run of three batches that ended after two pauses.
C7_Witness == pc = "done" /\ Len(batches) = 3 /\ pauses = 2

\* C8: no per-file error leaves a job: whatever fails inside process_file is
\* logged there, the future holds no exception, future.result() does not
\* raise and the orchestrator is never aborted.
C8_NoErrorPropagates ==
    /\ pc # "aborted"
    /\ \A j \in DOMAIN jobs :
          /\ jobs[j].exc = "none"
          /\ (Terminal(j) /\ Failed(j)) => Logged(file_list[j], AllTemplates)

\* A run that ended although a conversion failed in one job and the move in
\* another.
C8_Witness ==
    /\ pc = "done"
    /\ \E a, b \in DOMAIN jobs :
          /\ jobs[a].err \in {"DecodeError", "EncodeError"}
          /\ jobs[b].moveErr

\* C9: a failure of enumeration, decoding or encoding leaves the archive
\* untouched: when the job finishes the file is still in the source
\* directory and not in original/.
C9_ConversionFailureLeavesFile ==
    \A j \in DOMAIN jobs :
        (Terminal(j) /\ jobs[j].err \in {"EnumError", "DecodeError", "EncodeError"}) =>
            /\ file_list[j] \in dir
            /\ file_list[j] \notin original

\* C10 as claimed: a decoding or encoding failure is not caught by the
\* handler of process_cbz / process_cbr but by the one of process_file, and
\* the line logged is the generic "Failed to process" one.
C10_GenericTemplateOnEncodeFailure ==
    \A j \in DOMAIN jobs :
        (Terminal(j) /\ jobs[j].err \in {"DecodeError", "EncodeError"}) =>
            /\ Logged(file_list[j], {"Failed to process"})
            /\ ~Logged(file_list[j], FormatTemplates)

\* C10 as amended: a decoding or encoding failure is caught by the handler
\* of process_cbz / process_cbr, which logs the "Error processing CBZ" /
\* "Error processing CBR" line of the file's format; the "Failed to process"
\* line is written for a file exactly when its move has failed.
C10_FormatTemplateOnEncodeFailure ==
    \A j \in DOMAIN jobs :
        LET f == file_list[j]
        IN  /\ (jobs[j].err \in {"DecodeError", "EncodeError"}
                    /\ jobs[j].pc \in {"move", "done"}) =>
                  Logged(f, {IF IsCbz(f) THEN "Error processing CBZ"
                                         ELSE "Error processing CBR"})
            /\ Logged(f, {"Failed to process"}) => jobs[j].moveErr
            /\ (Terminal(j) /\ jobs[j].moveErr) => Logged(f, {"Failed to process"})

\* An encoding failure in a .cbz and one in a .cbr, both jobs finished.
C10_Witness ==
    \E a, b \in DOMAIN jobs :
        /\ Terminal(a) /\ Terminal(b)
        /\ IsCbz(file_list[a]) /\ IsCbr(file_list[b])
        /\ jobs[a].err = "EncodeError" /\ jobs[b].err = "EncodeError"

\* C11: an archive that opens and holds no qualifying image entry: the job
\* writes no PDF and no error-log line for the conversion, and goes on to
\* the move, which relocates the file into original/ (a move that itself
\* fails is the relocation failure of C14).
C11_EmptyArchive ==
    \A j \in DOMAIN jobs :
        LET f == file_list[j]
        IN  (jobs[j].err = "none" /\ jobs[j].opened = 0
                /\ jobs[j].pc \in {"move", "log", "done"}) =>
              /\ ~jobs[j].saved
              /\ ~Logged(f, FormatTemplates)
              /\ ~jobs[j].moveErr =>
                    /\ jobs[j].logged = 0
                    /\ ~Logged(f, AllTemplates)
              /\ (Terminal(j) /\ ~jobs[j].moveErr) =>
                    /\ jobs[j].moved
                    /\ f \in original
                    /\ f \notin dir

\* A finished run whose only archive was empty: relocated, no PDF, no log.
C11_Witness ==
    /\ pc = "done"
    /\ \E j \in DOMAIN jobs :
          /\ Terminal(j)
          /\ jobs[j].err = "none"
          /\ jobs[j].opened = 0
          /\ file_list[j] \in original
    /\ pdfs = {}
    /\ log = << >>

\* The entries of this run's log that name the file of entry j.
LinesOf(j) == {n \in DOMAIN RunLog : RunLog[n].file = file_list[j]}

\* C12: concurrent log_error calls never interleave or corrupt lines: every
\* entry of the log is one whole line (message and newline), written by a
\* call of some job, and every job has as many lines in the log as it has
\* completed log_error calls: none lost, split or merged, in any order.
C12_AtomicAppends ==
    /\ \A n \in DOMAIN RunLog :
          /\ RunLog[n].part = "line"
          /\ RunLog[n].tmpl \in AllTemplates
          /\ \E j \in DOMAIN jobs : RunLog[n].file = file_list[j]
    /\ \A j \in DOMAIN jobs : Cardinality(LinesOf(j)) = jobs[j].logged

\* Two jobs of one batch were inside log_error at the same time and both
\* lines are in the log, the later-started job's line first.
C12_Witness ==
    \E a, b \in DOMAIN jobs :
        /\ a < b
        /\ BatchOf(a) = BatchOf(b)
        /\ jobs[a].logged >= 1
        /\ jobs[b].logged >= 1
        /\ \E m, n \in DOMAIN RunLog :
              /\ m < n
              /\ RunLog[m].file = file_list[b]
              /\ RunLog[n].file = file_list[a]

\* The archives the first run started on: files are only ever moved from the
\* directory into original/.
AllArchives == {f \in dir \cup original : Matches(f)}

\* The files a listing has discovered.
Discovered == {file_list[n] : n \in DOMAIN file_list}

\* C13: a run started after an earlier one discovers exactly the archives
\* the earlier run did not relocate; if the earlier run relocated every file
\* it discovered, the new run discovers nothing, forms and announces no
\* batch, dispatches no job, makes no pause and leaves the PDFs, original/
\* and the error log as it found them.
C13_RerunIdempotent ==
    run > 1 =>
        /\ pc # "scan" => Discovered = AllArchives \ found.original
        /\ found.relocated =>
              /\ file_list = << >>
              /\ jobs = << >>
              /\ queue = << >>
              /\ batches = << >>
              /\ announced = << >>
              /\ pauses = 0
              /\ pbar = 0
              /\ pdfs = found.pdfs
              /\ original = found.original
              /\ log = found.log

\* A second run has ended on a directory whose archives the first run had
\* all relocated, one of them after a logged conversion failure.
C13_Witness ==
    /\ run = 2
    /\ pc = "done"
    /\ found.relocated
    /\ Cardinality(found.original) = MaxRerunFiles
    /\ found.pdfs # {}
    /\ found.log # << >>

\* C14: a shutil.move that raises is caught by the handler of process_file
\* (the exception does not leave the call) and logged with the generic
\* "Failed to process" template; whenever that line is in the log for a
\* file, the file is still in the source directory and not in original/.
C14_RelocationFailure ==
    \A j \in DOMAIN jobs :
        LET f == file_list[j]
        IN  /\ jobs[j].moveErr =>
                  /\ jobs[j].exc = "none"
                  /\ ~jobs[j].moved
                  /\ jobs[j].pc \in {"log", "done"}
            /\ (Terminal(j) /\ jobs[j].moveErr) =>
                  Logged(f, {"Failed to process"})
            /\ Logged(f, {"Failed to process"}) =>
                  /\ f \in dir
                  /\ f \notin original

\* The PDF of a file was written, its move failed and the job has ended.
C14_Witness ==
    \E j \in DOMAIN jobs :
        /\ Terminal(j)
        /\ jobs[j].saved
        /\ jobs[j].moveErr
        /\ Logged(file_list[j], {"Failed to process"})
        /\ file_list[j] \in dir

\* C15: decoded images are released on every path through images_to_pdf:
\* when a job is terminal, every image it opened has been closed, also if
\* saving the PDF raised or decoding a later entry raised.
C15_ImagesReleased ==
    \A j \in DOMAIN jobs :
        Terminal(j) => jobs[j].closed = jobs[j].opened

\* Entry j is a job that hangs for ever.
Hung(j) == j \in DOMAIN jobs /\ jobs[j].pc = "hung"

\* Entry b is another job of the batch of a hung job and has been submitted.
SubmittedSibling(b) ==
    /\ b \in DOMAIN jobs
    /\ Submitted(b)
    /\ \E h \in DOMAIN jobs : Hung(h) /\ h # b /\ BatchOf(h) = BatchOf(b)

\* While a job hangs the orchestrator is inside the batch of that job,
\* submitting or waiting in future.result(): the batch is not complete, no
\* job of a later batch is submitted, no later pause is made and the run
\* has not ended.
HangBlocksRun ==
    \A h \in DOMAIN jobs :
        Hung(h) =>
            /\ pc \in {"submit", "wait"}
            /\ Len(batches) = BatchOf(h)
            /\ pbar < Len(batch_files)
            /\ pauses = BatchOf(h) - 1
            /\ \A b \in DOMAIN jobs : BatchOf(b) > BatchOf(h) => ~Submitted(b)

\* C16 as claimed: while one job hangs for ever the batch never completes,
\* no job of a later batch is submitted, no later pause occurs and the run
\* never ends, and every sibling job already submitted still runs to its
\* terminal state.
C16_SiblingsAlwaysFinish ==
    /\ []HangBlocksRun
    /\ \A b \in 1..MaxFiles :
          SubmittedSibling(b) ~> (b \in DOMAIN jobs /\ Terminal(b))

\* C16 as amended: the same, but a submitted sibling runs to its terminal
\* state if a worker thread has already taken it or the pool has a thread
\* besides the one that hangs; on a pool of one thread the hung call keeps
\* the only worker, and the siblings queued behind it are never started.
C16_SiblingsFinishOnFreeWorker ==
    /\ []HangBlocksRun
    /\ [](\A h, b \in DOMAIN jobs :
             (Hung(h) /\ max_workers = 1 /\ b # h) =>
                 jobs[b].pc \in {"none", "queued", "done"})
    /\ \A b \in 1..MaxFiles :
          (SubmittedSibling(b) /\ (max_workers > 1 \/ Started(b)))
              ~> (b \in DOMAIN jobs /\ Terminal(b))

\* A job of the first batch hangs, its sibling has finished on the other
\* worker, and the third file is still not submitted.
C16_Witness ==
    /\ pc = "wait"
    /\ total_files = 3
    /\ \E h, b, c \in DOMAIN jobs :
          /\ Hung(h)
          /\ b # h
          /\ BatchOf(b) = BatchOf(h)
          /\ Terminal(b)
          /\ BatchOf(c) > BatchOf(h)
          /\ ~Submitted(c)

\* C17: every discovered file has at most one line of this run in the error
\* log, exactly one once its job has ended in failure and none if it
\* succeeded; a finished run has appended as many lines as files failed,
\* and a run without a failure leaves the log empty (not created).
C17_OneLinePerFailedFile ==
    /\ \A j \in DOMAIN jobs :
          /\ Cardinality(LinesOf(j)) <= 1
          /\ Terminal(j) => (Cardinality(LinesOf(j)) = 1 <=> Failed(j))
    /\ RunComplete =>
          Len(RunLog) = Cardinality({j \in DOMAIN jobs : Failed(j)})
    /\ (\A j \in DOMAIN jobs : ~Failed(j)) => RunLog = << >>

\* The jobs of the batch the orchestrator is working on.
CurrentBatch == {Future(n) : n \in DOMAIN batch_files}

\* C18: progress is observed and does not gate dispatch: when the
\* orchestrator starts to wait, every job of the batch has been submitted
\* and the counter is 0; the counter never exceeds the number of terminal
\* jobs of the current batch, and is the batch size when the batch is
\* complete.
C18_ProgressObserved ==
    /\ pc = "submit" => pbar = 0
    /\ pc \in {"wait", "exit", "sleep"} =>
          \A j \in CurrentBatch : Submitted(j)
    /\ pc \in {"submit", "wait", "exit", "sleep"} =>
          /\ pbar <= Cardinality({j \in CurrentBatch : Terminal(j)})
          /\ pbar <= Len(batch_files)
    /\ pc \in {"exit", "sleep"} =>
          /\ pbar = Len(batch_files)
          /\ \A j \in CurrentBatch : Terminal(j)

\* Both jobs of a batch have ended before the orchestrator has counted the
\* second one.
C18_Witness ==
    /\ pc = "wait"
    /\ Len(batch_files) = 2
    /\ pbar = 1
    /\ \A j \in CurrentBatch : Terminal(j)

\* C19: distinct discovered files are bound to distinct PDF paths, so no two
\* jobs of a run write the same PDF file, also for two files with the same
\* base name and different matching extensions.
C19_DistinctPdfPaths ==
    \A a, b \in DOMAIN jobs :
        a # b => PdfPath(file_list[a]) # PdfPath(file_list[b])

====
